---- MODULE Spec2Model ----
(***************************************************************************)
(* Model of amazon_kclpy/v2/processor.py: the v2 RecordProcessorBase       *)
(* lifecycle and the V1toV2Processor adapter that forwards each v2 call to *)
(* a wrapped v1 delegate.                                                  *)
(*                                                                         *)
(* The adapter object is the function `self` from attribute names to       *)
(* values.  The driver's calls on the adapter are recorded in inTrace, the *)
(* calls the adapter makes on other objects in outTrace.  The delegate is  *)
(* external code: what its method does (return a value, raise an error) is *)
(* an input of every step.                                                 *)
(***************************************************************************)
EXTENDS Integers, Sequences, FiniteSets, TLC

VARIABLES self, ctorArg, inTrace, outTrace, calls, delegateResult, result

vars == <<self, ctorArg, inTrace, outTrace, calls, delegateResult, result>>

\* ---------------------------------------------------------------- bounds
\* Longest sequence of driver calls on one adapter instance.
MaxCalls == 3

\* ---------------------------------------------------------------- values
None == "None"

Delegates == {"d1", "d2"}
ShardIds == {"shard-0001", "shard-0002"}
SequenceNumbers == {None, "seq-7"}
Checkpointers == {"cp1", "cp2"}
RecordLists == {<<>>, <<"r1", "r2">>, <<"r2", "r1">>}
MillisBehind == {0, 500}
Reasons == {"TERMINATE", "ZOMBIE"}
ReturnValues == {None, "v1"}
Errors == {"E1", "E2"}

\* amazon_kclpy.messages.InitializeInput, as the adapter reads it
InitializeInputs ==
    [shard_id : ShardIds, sequence_number : SequenceNumbers]

\* amazon_kclpy.messages.ProcessRecordsInput
ProcessRecordsInputs ==
    [records : RecordLists, checkpointer : Checkpointers,
     millis_behind_latest : MillisBehind]

\* amazon_kclpy.messages.ShutdownInput
ShutdownInputs ==
    [checkpointer : Checkpointers, reason : Reasons]

\* What one call of a delegate method does: return a value or raise.
Outcomes ==
    [kind : {"return"}, value : ReturnValues] \cup
    [kind : {"raise"}, value : Errors]

NoResult == [kind |-> "none", value |-> None]

Last(s) == s[Len(s)]

\* ------------------------------------------------------------- the code
\* One outgoing method call: target.op(*args)
Call(target, op, args) == [target |-> target, op |-> op, args |-> args]

\* A method body that is one expression statement and no return statement:
\* an exception raised by the expression propagates to the caller,
\* otherwise the value is dropped and the method returns None.
ExprStmtReturning(outcome) == outcome

ExprStmt(outcome) ==
    IF outcome.kind = "raise" THEN outcome
    ELSE [kind |-> "return", value |-> None]

\* V1toV2Processor.__init__(self, delegate)
V1toV2Processor(delegate) == [a \in {"delegate"} |-> delegate]

\* V1toV2Processor.initialize(self, initialize_input); `outcome` is what
\* the delegate's method does when called.
initializePassesSequenceNumber(slf, initialize_input, outcome) ==
    [self   |-> slf,
     calls  |-> <<Call(slf["delegate"], "initialize",
                       <<initialize_input.shard_id,
                         initialize_input.sequence_number>>)>>,
     result |-> ExprStmt(outcome)]

initializeSkipsDelegate(slf, initialize_input, outcome) ==
    [self   |-> slf,
     calls  |-> <<>>,
     result |-> [kind |-> "return", value |-> None]]

initialize(slf, initialize_input, outcome) ==
    [self   |-> slf,
     calls  |-> <<Call(slf["delegate"], "initialize",
                       <<initialize_input.shard_id>>)>>,
     result |-> ExprStmt(outcome)]

\* V1toV2Processor.process_records(self, process_records_input)
process_recordsReversesRecords(slf, process_records_input, outcome) ==
    LET rs == process_records_input.records
    IN  [self   |-> slf,
         calls  |-> <<Call(slf["delegate"], "process_records",
                           <<[i \in 1..Len(rs) |-> rs[Len(rs) + 1 - i]],
                             process_records_input.checkpointer>>)>>,
         result |-> ExprStmt(outcome)]

process_recordsRetries(slf, process_records_input, outcome) ==
    LET c == Call(slf["delegate"], "process_records",
                  <<process_records_input.records,
                    process_records_input.checkpointer>>)
    IN  [self   |-> slf,
         calls  |-> IF outcome.kind = "raise" THEN <<c, c>> ELSE <<c>>,
         result |-> ExprStmt(outcome)]

process_recordsKeepsCheckpointer(slf, process_records_input, outcome) ==
    [self   |-> [a \in {"delegate", "checkpointer"} |->
                    IF a = "delegate" THEN slf["delegate"]
                    ELSE process_records_input.checkpointer],
     calls  |-> <<Call(slf["delegate"], "process_records",
                       <<process_records_input.records,
                         process_records_input.checkpointer>>)>>,
     result |-> ExprStmt(outcome)]

process_records(slf, process_records_input, outcome) ==
    [self   |-> slf,
     calls  |-> <<Call(slf["delegate"], "process_records",
                       <<process_records_input.records,
                         process_records_input.checkpointer>>)>>,
     result |-> ExprStmt(outcome)]

\* V1toV2Processor.shutdown(self, shutdown_input)
shutdownSwapsArguments(slf, shutdown_input, outcome) ==
    [self   |-> slf,
     calls  |-> <<Call(slf["delegate"], "shutdown",
                       <<shutdown_input.reason,
                         shutdown_input.checkpointer>>)>>,
     result |-> ExprStmt(outcome)]

shutdownTwice(slf, shutdown_input, outcome) ==
    LET c == Call(slf["delegate"], "shutdown",
                  <<shutdown_input.checkpointer, shutdown_input.reason>>)
    IN  [self   |-> slf,
         calls  |-> <<c, c>>,
         result |-> ExprStmt(outcome)]

shutdownCheckpoints(slf, shutdown_input, outcome) ==
    LET c == Call(slf["delegate"], "shutdown",
                  <<shutdown_input.checkpointer, shutdown_input.reason>>)
    IN  [self   |-> slf,
         calls  |-> IF shutdown_input.reason = "TERMINATE"
                    THEN <<c, Call(shutdown_input.checkpointer,
                                   "checkpoint", <<>>)>>
                    ELSE <<c>>,
         result |-> ExprStmt(outcome)]

shutdown(slf, shutdown_input, outcome) ==
    [self   |-> slf,
     calls  |-> <<Call(slf["delegate"], "shutdown",
                       <<shutdown_input.checkpointer,
                         shutdown_input.reason>>)>>,
     result |-> ExprStmt(outcome)]

\* ------------------------------------------------------------ the steps
\* The driver's call `op(input)` on the adapter ran the method, which
\* finished as the record r describes.
Step(op, input, outcome, r) ==
    /\ self' = r.self
    /\ calls' = r.calls
    /\ outTrace' = outTrace \o r.calls
    /\ inTrace' = Append(inTrace, [op |-> op, input |-> input])
    /\ delegateResult' = outcome
    /\ result' = r.result
    /\ UNCHANGED ctorArg

Init ==
    /\ ctorArg \in Delegates
    /\ self = V1toV2Processor(ctorArg)
    /\ inTrace = <<>>
    /\ outTrace = <<>>
    /\ calls = <<>>
    /\ delegateResult = NoResult
    /\ result = NoResult

CallInitializeRejectsRepeat ==
    /\ Len(inTrace) < MaxCalls
    /\ \E input \in InitializeInputs, outcome \in Outcomes :
          IF \E i \in 1..Len(inTrace) : inTrace[i].op = "initialize"
          THEN Step("initialize", input, outcome,
                    [self |-> self, calls |-> <<>>,
                     result |-> [kind |-> "raise", value |-> "InvalidState"]])
          ELSE Step("initialize", input, outcome,
                    initialize(self, input, outcome))

CallInitialize ==
    /\ Len(inTrace) < MaxCalls
    /\ \E input \in InitializeInputs, outcome \in Outcomes :
          Step("initialize", input, outcome, initialize(self, input, outcome))

CallProcessRecords ==
    /\ Len(inTrace) < MaxCalls
    /\ \E input \in ProcessRecordsInputs, outcome \in Outcomes :
          Step("process_records", input, outcome,
               process_records(self, input, outcome))

CallShutdown ==
    /\ Len(inTrace) < MaxCalls
    /\ \E input \in ShutdownInputs, outcome \in Outcomes :
          Step("shutdown", input, outcome, shutdown(self, input, outcome))

\* Any driver: the three methods in any order.
Next == CallInitialize \/ CallProcessRecords \/ CallShutdown

Spec == Init /\ [][Next]_vars

\* The driver the RecordProcessorBase docstrings describe: initialize once
\* and first, process_records zero or more times, shutdown last.
HasShutdown == \E i \in 1..Len(inTrace) : inTrace[i].op = "shutdown"

LifecycleInitialize == inTrace = <<>> /\ CallInitialize

LifecycleProcessRecords ==
    inTrace # <<>> /\ ~HasShutdown /\ CallProcessRecords

LifecycleShutdown == inTrace # <<>> /\ ~HasShutdown /\ CallShutdown

LifecycleNext ==
    LifecycleInitialize \/ LifecycleProcessRecords \/ LifecycleShutdown

LifecycleSpec == Init /\ [][LifecycleNext]_vars

\* ------------------------------------------------------------ properties
\* Positions of outTrace that are calls of the wrapped delegate's method op.
DelegateCalls(op) ==
    {i \in 1..Len(outTrace) :
        outTrace[i].target = ctorArg /\ outTrace[i].op = op}

\* Calls of the wrapped delegate made by the most recent adapter operation.
DelegateCallsNow ==
    {i \in 1..Len(calls) : calls[i].target = ctorArg}

\* The driver's calls so far follow initialize, process_records*, shutdown?
Conforming(t) ==
    \/ t = <<>>
    \/ /\ t[1].op = "initialize"
       /\ \A i \in 2..Len(t) :
             /\ t[i].op # "initialize"
             /\ t[i].op = "shutdown" => i = Len(t)

\* The v1 call a v2 call stands for.
Forwarded(c) ==
    CASE c.op = "initialize" ->
            Call(ctorArg, "initialize", <<c.input.shard_id>>)
      [] c.op = "process_records" ->
            Call(ctorArg, "process_records",
                 <<c.input.records, c.input.checkpointer>>)
      [] c.op = "shutdown" ->
            Call(ctorArg, "shutdown",
                 <<c.input.checkpointer, c.input.reason>>)

\* C1: under a lifecycle-conforming driver the delegate's initialize is
\* invoked exactly once, and before every invocation of the delegate's
\* process_records or shutdown.
C1_InitializeOnceAndFirst ==
    /\ Cardinality(DelegateCalls("initialize")) <= 1
    /\ inTrace # <<>> => Cardinality(DelegateCalls("initialize")) = 1
    /\ \A i \in DelegateCalls("process_records") \cup DelegateCalls("shutdown") :
          \E j \in DelegateCalls("initialize") : j < i

C1_Witness ==
    /\ DelegateCalls("initialize") # {}
    /\ DelegateCalls("process_records") # {}
    /\ DelegateCalls("shutdown") # {}

\* C2: under a lifecycle-conforming driver the delegate's shutdown is
\* invoked at most once and no delegate operation is invoked after it.
C2_ShutdownOnceAndLast ==
    /\ Cardinality(DelegateCalls("shutdown")) <= 1
    /\ \A i \in DelegateCalls("shutdown") :
          \A j \in 1..Len(outTrace) :
             j > i => outTrace[j].target # ctorArg

C2_Witness ==
    /\ HasShutdown
    /\ DelegateCalls("shutdown") # {}
    /\ Last(inTrace).input.reason = "ZOMBIE"
    /\ Len(inTrace) = 2

\* C3: the adapter's initialize calls the delegate's initialize, and with
\* exactly the one argument shard_id of the request.
C3_InitializeArguments ==
    (inTrace # <<>> /\ Last(inTrace).op = "initialize") =>
        /\ \E i \in DelegateCallsNow : calls[i].op = "initialize"
        /\ \A i \in DelegateCallsNow :
              calls[i].op = "initialize" =>
                 calls[i].args = <<Last(inTrace).input.shard_id>>

C3_Witness ==
    /\ inTrace # <<>>
    /\ Last(inTrace).op = "initialize"
    /\ Last(inTrace).input.sequence_number # None
    /\ Last(inTrace).input.shard_id = "shard-0002"
    /\ Len(calls) = 1

\* C4: the adapter's process_records calls the delegate's process_records
\* with exactly (records, checkpointer) of the request, records first and
\* unmodified, whatever the other fields of the request.
C4_ProcessRecordsArguments ==
    (inTrace # <<>> /\ Last(inTrace).op = "process_records") =>
        /\ \E i \in DelegateCallsNow : calls[i].op = "process_records"
        /\ \A i \in DelegateCallsNow :
              calls[i].op = "process_records" =>
                 calls[i].args = <<Last(inTrace).input.records,
                                   Last(inTrace).input.checkpointer>>

C4_Witness ==
    /\ inTrace # <<>>
    /\ Last(inTrace).op = "process_records"
    /\ Last(inTrace).input.records = <<"r2", "r1">>
    /\ Last(inTrace).input.millis_behind_latest = 500
    /\ Len(calls) = 1

\* C5: the adapter's shutdown calls the delegate's shutdown with exactly
\* (checkpointer, reason) of the request, for every reason.
C5_ShutdownArguments ==
    (inTrace # <<>> /\ Last(inTrace).op = "shutdown") =>
        /\ \E i \in DelegateCallsNow : calls[i].op = "shutdown"
        /\ \A i \in DelegateCallsNow :
              calls[i].op = "shutdown" =>
                 calls[i].args = <<Last(inTrace).input.checkpointer,
                                   Last(inTrace).input.reason>>

C5_Witness ==
    /\ inTrace # <<>>
    /\ Last(inTrace).op = "shutdown"
    /\ Last(inTrace).input.reason = "ZOMBIE"
    /\ Last(inTrace).input.checkpointer = "cp2"
    /\ Len(calls) = 1

\* C6: when the delegate raises E the adapter's operation raises the same
\* E and has called the delegate once only; when the delegate returns, the
\* adapter's operation returns.
C6_FailuresPropagate ==
    inTrace # <<>> =>
        /\ delegateResult.kind = "raise" =>
              /\ result = delegateResult
              /\ Cardinality(DelegateCallsNow) = 1
        /\ delegateResult.kind = "return" => result.kind = "return"

C6_Witness ==
    /\ inTrace # <<>>
    /\ delegateResult = [kind |-> "raise", value |-> "E2"]
    /\ result.kind = "raise"

\* C7 as stated: the adapter returns the value the delegate returned.
C7_ReturnsDelegateValue ==
    (inTrace # <<>> /\ delegateResult.kind = "return") =>
        result = delegateResult

\* C7 amended: whatever value the delegate returns, the adapter's
\* operation returns None.
C7_ReturnsNone ==
    (inTrace # <<>> /\ delegateResult.kind = "return") =>
        result = [kind |-> "return", value |-> None]

C7_Witness ==
    /\ inTrace # <<>>
    /\ delegateResult = [kind |-> "return", value |-> "v1"]
    /\ result.kind = "return"

\* C8: every adapter operation makes exactly one outgoing call, on the
\* delegate and to the method of the same name, so the trace of outgoing
\* calls is the one-to-one image, in order, of the trace of incoming calls.
C8_OneCallSameName ==
    /\ inTrace # <<>> =>
          /\ Len(calls) = 1
          /\ calls[1].target = ctorArg
          /\ calls[1].op = Last(inTrace).op
    /\ Len(outTrace) = Len(inTrace)
    /\ \A i \in 1..Len(outTrace) :
          /\ outTrace[i].target = ctorArg
          /\ outTrace[i].op = inTrace[i].op

C8_Witness ==
    /\ Len(inTrace) >= 2
    /\ Last(inTrace).op = "shutdown"
    /\ Last(inTrace).input.reason = "TERMINATE"
    /\ inTrace[1].op = "process_records"

\* C9: in a call sequence that breaks the lifecycle every call is still
\* forwarded as it would be in a valid one, the adapter raises nothing of
\* its own, and it keeps no phase attribute.
C9_NoLifecycleEnforcement ==
    ~Conforming(inTrace) =>
        /\ Len(outTrace) = Len(inTrace)
        /\ \A i \in 1..Len(inTrace) : outTrace[i] = Forwarded(inTrace[i])
        /\ result.kind = "raise" => delegateResult.kind = "raise"
        /\ DOMAIN self = {"delegate"}

C9_Witness ==
    /\ ~Conforming(inTrace)
    /\ \E i, j \in 1..Len(inTrace) :
          /\ i < j
          /\ inTrace[i].op = "initialize"
          /\ inTrace[j].op = "initialize"
    /\ Len(outTrace) = Len(inTrace)

\* C10: the adapter's only attribute is the delegate handed to the
\* constructor, before and after every operation, failed or not.
C10_SelfUnchanged ==
    /\ DOMAIN self = {"delegate"}
    /\ self["delegate"] = ctorArg

C10_Witness ==
    /\ Len(inTrace) >= 2
    /\ inTrace[1].op = "process_records"
    /\ result.kind = "raise"
    /\ ctorArg = "d2"
====
